---- MODULE Spec2Model ----
(***************************************************************************)
(* A model of the CT-HMM learner of src/ct_hmm.py: construction of the     *)
(* structural mask and of the rate matrix Q, the EM loop of run_EM, one    *)
(* EM_step (cache rebuild, per-patient statistics, M-step), the            *)
(* log-likelihood test, and predict.                                       *)
(*                                                                         *)
(* Numbers.  A float is modelled by a pair <<n, d>>: the rational n/d when *)
(* d > 0 (kept in lowest terms), +Inf = <<1,0>>, -Inf = <<-1,0>> and       *)
(* NaN = <<0,0>>, with IEEE rules for the special values.  Rate values (Q, *)
(* Nij/TauI) are expressed in units of the flooring constant 1e-10 of      *)
(* update_model_params, so that the floor itself is the number 1.          *)
(*                                                                         *)
(* Numerical kernels.  expm(Q*t) and eig(Q) are library calls: a cached    *)
(* kernel or eigendecomposition is represented by the matrix Q it was      *)
(* computed from.  The per-gap contractions of the pairwise beliefs        *)
(* (the time integrals both statistics routines evaluate) and the scaling  *)
(* constants of the forward recursion are values the libraries return:     *)
(* they are inputs drawn from small sets.                                  *)
(***************************************************************************)
EXTENDS Integers, Sequences, FiniteSets, TLC

(* ------------------------------ bounds -------------------------------- *)

\* Largest numerator magnitude and denominator of an accumulated statistic.
MaxNum == 2

(* ------------------------------ numbers ------------------------------- *)

NaN == <<0, 0>>

PInf == <<1, 0>>

NInf == <<-1, 0>>

AbsInt(x) == IF x < 0 THEN -x ELSE x

RECURSIVE GCD(_, _)
GCD(a, b) == IF b = 0 THEN a ELSE GCD(b, a % b)

\* The rational n/d, d # 0, in lowest terms with a positive denominator.
Norm(n, d) ==
    LET g == GCD(AbsInt(n), AbsInt(d))
        s == IF d < 0 THEN -1 ELSE 1
    IN  <<(s * n) \div g, (s * d) \div g>>

Num(k) == <<k, 1>>

Zero == Num(0)

IsNaN(a) == a = NaN

IsInf(a) == a = PInf \/ a = NInf

IsFinite(a) == a[2] # 0

SignOf(a) == IF a[1] < 0 THEN -1 ELSE IF a[1] > 0 THEN 1 ELSE 0

InfOfSign(s) == IF s < 0 THEN NInf ELSE PInf

Add(a, b) ==
    IF IsNaN(a) \/ IsNaN(b) THEN NaN
    ELSE IF IsInf(a) /\ IsInf(b) THEN (IF a = b THEN a ELSE NaN)
    ELSE IF IsInf(a) THEN a
    ELSE IF IsInf(b) THEN b
    ELSE Norm(a[1] * b[2] + b[1] * a[2], a[2] * b[2])

Neg(a) == <<-a[1], a[2]>>

Sub(a, b) == Add(a, Neg(b))

Mul(a, b) ==
    IF IsNaN(a) \/ IsNaN(b) THEN NaN
    ELSE IF IsInf(a) \/ IsInf(b)
         THEN (IF SignOf(a) * SignOf(b) = 0 THEN NaN
               ELSE InfOfSign(SignOf(a) * SignOf(b)))
    ELSE Norm(a[1] * b[1], a[2] * b[2])

\* Float division: x/0 is +-Inf, 0/0 is NaN (a warning, no exception).
Div(a, b) ==
    IF IsNaN(a) \/ IsNaN(b) THEN NaN
    ELSE IF IsInf(a) /\ IsInf(b) THEN NaN
    ELSE IF IsInf(a) THEN InfOfSign(SignOf(a) * (IF SignOf(b) < 0 THEN -1 ELSE 1))
    ELSE IF IsInf(b) THEN Zero
    ELSE IF b[1] = 0 THEN (IF a[1] = 0 THEN NaN ELSE InfOfSign(SignOf(a)))
    ELSE Norm(a[1] * b[2], a[2] * b[1])

\* a < b on floats: every comparison with NaN is false.
Lt(a, b) ==
    /\ ~IsNaN(a)
    /\ ~IsNaN(b)
    /\ a # b
    /\ \/ a = NInf
       \/ b = PInf
       \/ (IsFinite(a) /\ IsFinite(b) /\ a[1] * b[2] < b[1] * a[2])

Gt(a, b) == Lt(b, a)

Abs(a) == IF a[1] < 0 THEN Neg(a) ELSE a

\* A statistic the bounds admit: NaN, or a rational within MaxNum.
InRange(a) == IsNaN(a) \/ (IsFinite(a) /\ AbsInt(a[1]) <= MaxNum /\ a[2] <= MaxNum)

(* ------------------------------ matrices ------------------------------ *)

States(n) == 0 .. (n - 1)

RECURSIVE SumTo(_, _)
\* f[0] + ... + f[k], added left to right.
SumTo(f, k) == IF k < 0 THEN Zero ELSE Add(SumTo(f, k - 1), f[k])

\* np.sum of a vector indexed 0 .. n-1.
Sum(f, n) == SumTo(f, n - 1)

ZeroVec(n) == [i \in States(n) |-> Zero]

ZeroMat(n) == [i \in States(n) |-> [j \in States(n) |-> Zero]]

MatAdd(A, B, n) == [i \in States(n) |-> [j \in States(n) |-> Add(A[i][j], B[i][j])]]

VecAdd(a, b, n) == [i \in States(n) |-> Add(a[i], b[i])]

AllFinite(M, n) == \A i \in States(n) : \A j \in States(n) : IsFinite(M[i][j])

(* --------------------------- construction ----------------------------- *)

\* The topology names create_Q_struct recognises.
KnownStructures == {"fc", "forward_step", "forward_any"}

\* The topology names a caller may pass: the known ones and an unknown one.
Structures == KnownStructures \cup {"ring"}

\* The topology names of the learners that are trained: with one marker of two
\* levels "forward_any" gives the mask of "forward_step".
TrainStructures == {"fc", "forward_step", "ring"}

\* The per-marker level counts (len(ls_mu[m])) of the learners modelled.
LevelConfigs == {<<2>>}

\* The per-marker level counts of the learners that are only constructed: one or
\* two markers, up to three levels.
WideLevelConfigs == {<<1>>, <<2>>, <<3>>, <<2, 2>>, <<2, 3>>, <<3, 2>>}

RECURSIVE ProdFrom(_, _)
\* lens[m] * ... * lens[Len(lens)]
ProdFrom(lens, m) == IF m > Len(lens) THEN 1 ELSE lens[m] * ProdFrom(lens, m + 1)

\* __init__: num_state is the product of the per-marker level counts.
NumStateOf(lens) == ProdFrom(lens, 1)

RECURSIVE product(_, _)
\* list(itertools.product(range(lens[1]), ..., range(lens[m]))): the tuples in the
\* order they are generated, the last position advancing first.
product(lens, m) ==
    IF m = 0 THEN << <<>> >>
    ELSE LET shorter == product(lens, m - 1) IN
         [k \in 1 .. (Len(shorter) * lens[m]) |->
             Append(shorter[((k - 1) \div lens[m]) + 1], (k - 1) % lens[m])]

\* enumerate(itertools.product(*temp)): the tuple state_combos_i of index i.
Combo(i, lens) == product(lens, Len(lens))[i + 1]

\* create_Q_struct accepting every topology name.
StructNeverRaises(struct) == FALSE

\* create_Q_struct raises for a topology name it does not know.
StructRaises(struct) == struct \notin KnownStructures

\* create_Q_struct with the step test of "forward_step" left out.
create_Q_struct_without_step_limit(struct, numstates, lens) ==
    [i \in States(numstates) |-> [j \in States(numstates) |->
        IF struct = "fc"
        THEN (IF i # j THEN 1 ELSE 0)
        ELSE (IF /\ Combo(i, lens) # Combo(j, lens)
                 /\ \A idx \in 1 .. Len(lens) :
                       ~(Combo(j, lens)[idx] - Combo(i, lens)[idx] < 0)
              THEN 1 ELSE 0)]]

\* create_Q_struct: the 0/1 mask of the topology struct.
create_Q_struct(struct, numstates, lens) ==
    [i \in States(numstates) |-> [j \in States(numstates) |->
        IF struct = "fc"
        THEN (IF i # j THEN 1 ELSE 0)
        ELSE IF struct = "forward_step"
        THEN (IF /\ Combo(i, lens) # Combo(j, lens)
                 /\ \A idx \in 1 .. Len(lens) :
                       ~(\/ Combo(j, lens)[idx] - Combo(i, lens)[idx] < 0
                         \/ Combo(j, lens)[idx] - Combo(i, lens)[idx] > 1)
              THEN 1 ELSE 0)
        ELSE (IF /\ Combo(i, lens) # Combo(j, lens)
                 /\ \A idx \in 1 .. Len(lens) :
                       ~(Combo(j, lens)[idx] - Combo(i, lens)[idx] < 0)
              THEN 1 ELSE 0)]]

\* self.Q[i,i] = -np.sum(self.Q[i,:]) for every row, the diagonal being 0 before.
SetDiagonal(M, n) ==
    [i \in States(n) |-> [j \in States(n) |->
        IF i = j THEN Neg(Sum([k \in States(n) |-> IF k = i THEN Zero ELSE M[i][k]], n))
        ELSE M[i][j]]]

\* __init__ with Q None: the random matrix R masked by Q_struct, then the diagonal.
RandomQ(R, Q_struct_, n) ==
    SetDiagonal([i \in States(n) |-> [j \in States(n) |->
                    IF Q_struct_[i][j] = 0 THEN Zero ELSE R[i][j]]], n)

\* __init__ with an explicit Q: the matrix is stored as passed.
ExplicitQ(Qarg, Q_struct_, n) == Qarg

\* The entries of np.random.rand(n, n) under np.random.seed(65) (in floor units).
RandVals == {Num(2)}

\* Off-diagonal rates of the explicit generator matrices a caller passes.
RateVals == {Num(0), Num(2)}

\* The outcomes of np.random.rand(n, n).
RandMats(n) == {[i \in States(n) |-> [j \in States(n) |-> v]] : v \in RandVals}

\* The generator matrices a caller passes: off-diagonal rates >= 0, rows summing to 0.
ExplicitQs(n) == {SetDiagonal(M, n) : M \in [States(n) -> [States(n) -> RateVals]]}

\* The observation times of the patients modelled: strictly increasing, at least
\* one observation; a patient with one observation has no gap.
PatientTimes == {<<0>>, <<0, 1>>, <<0, 2>>}

\* The times predict is asked about.
PredictTimes == {1, 2, 3}

\* The collections of patients a learner is built with: none, one patient without
\* a gap, one with a gap, two with different gaps, one with and one without a gap.
PatientLists ==
    {<<>>, << <<0>> >>, << <<0, 1>> >>, << <<0, 1>>, <<0, 2>> >>, << <<0, 1>>, <<0>> >>}

\* The gaps between consecutive observations of one patient.
GapsOf(times) == {times[k + 1] - times[k] : k \in 1 .. (Len(times) - 1)}

(* ------------------------------- state -------------------------------- *)

VARIABLES
    pc,                 \* where the caller / run_EM stands
    err,                \* the exception that ended the run ("" when none)
    method,             \* self.method
    bound,              \* self.bound
    ls_mu,              \* self.ls_mu: its shape and per-marker lengths
    ls_sigma,           \* self.ls_sigma: its shape
    num_state,          \* self.num_state
    Q_struct,           \* self.Q_struct
    Q,                  \* self.Q
    patients,           \* self.patients: the observation times of each patient
    has_time_intervals, \* whether self.time_intervals exists
    time_intervals,     \* self.time_intervals
    expm_Q_t,           \* self.expm_Q_t: gap -> the Q its kernel was computed from
    eig,                \* self.U, self.V, self.D: the Q they were computed from
    fast_eigen,         \* run_EM arguments
    tol,
    update_mu,
    update_sigma,
    old_log_likelihood, \* run_EM locals
    new_log_likelihood,
    C,                  \* per patient: np.sum(np.log(patient.C)) of its last forward recursion
    Beta,               \* per patient: whether the stored patient.Beta is "finite" or holds "nan"
    structure,          \* the structure argument the constructor was called with
    old_from,           \* where old_log_likelihood stems from: "init", "placeholder" or "computed"
    stale_read          \* whether a kernel computed from another Q than the current one was read

vars == <<pc, err, method, bound, ls_mu, ls_sigma, num_state, Q_struct, Q,
          patients, has_time_intervals, time_intervals, expm_Q_t, eig, fast_eigen, tol,
          update_mu, update_sigma, old_log_likelihood, new_log_likelihood, C, Beta,
          structure, old_from, stale_read>>

ctor_vars == <<structure, method, bound, num_state, Q_struct, patients>>

run_args == <<fast_eigen, tol, update_mu, update_sigma>>

\* self.ls_mu / self.ls_sigma as the constructor stores them: one list per marker.
PerMarker(lens) == [shape |-> "per_marker", lens |-> lens]

\* What the M-step stores when it re-estimates: one flat list of num_state quotients.
FlatList(n) == [shape |-> "flat", lens |-> <<n>>]

(* CT_HMM_LEARNER.__init__, its arguments drawn from the given sets *)
Construct(structs, levels, ptlists, passQs) ==
    \E struct \in structs, lens \in levels, meth \in {"eigen", "expm"},
       bnd \in BOOLEAN, pts \in ptlists, passQ \in passQs :
       LET n == NumStateOf(lens) IN
       /\ ls_mu = PerMarker(lens)
       /\ ls_sigma = PerMarker(lens)
       /\ num_state = n
       /\ IF StructRaises(struct)
          THEN /\ pc = "ctor_error"
               /\ err = "Exception"
               /\ Q_struct = <<>>
               /\ Q = <<>>
               /\ patients = <<>>
               /\ method = ""
               /\ bound = FALSE
          ELSE /\ pc = "idle"
               /\ err = ""
               /\ Q_struct = create_Q_struct(struct, n, lens)
               /\ IF passQ
                  THEN \E Qarg \in ExplicitQs(n) : Q = ExplicitQ(Qarg, Q_struct, n)
                  ELSE \E R \in RandMats(n) : Q = RandomQ(R, Q_struct, n)
               /\ patients = pts
               /\ method = meth
               /\ bound = bnd
       /\ has_time_intervals = FALSE
       /\ time_intervals = {}
       /\ expm_Q_t = <<>>
       /\ eig = <<>>
       /\ fast_eigen = FALSE
       /\ tol = Zero
       /\ update_mu = FALSE
       /\ update_sigma = FALSE
       /\ old_log_likelihood = Zero
       /\ new_log_likelihood = Zero
       /\ C = <<>>
       /\ Beta = <<>>
       /\ structure = struct
       /\ old_from = "init"
       /\ stale_read = FALSE

\* The learners that are trained.
Init == Construct(TrainStructures, LevelConfigs, PatientLists, BOOLEAN)

\* Learners of every topology over the wider marker configurations, built with a
\* random Q and no patient.
StructInit == Construct(Structures, WideLevelConfigs, {<<>>}, {FALSE})

(* CT_HMM_LEARNER.get_time_intervals, called by the user of the learner *)
get_time_intervals ==
    /\ pc = "idle"
    /\ ~has_time_intervals
    /\ has_time_intervals' = TRUE
    /\ time_intervals' = UNION {GapsOf(patients[p]) : p \in 1 .. Len(patients)}
    /\ UNCHANGED <<pc, err, ctor_vars, ls_mu, ls_sigma, Q, expm_Q_t, eig, run_args,
                   old_log_likelihood, new_log_likelihood, C, Beta,
                   old_from, stale_read>>

\* The tolerances a caller passes.
TolVals == {Num(1)}

\* The fast_eigen arguments a caller passes: EM_step reads the flag only under the
\* eigen method, other learners are run with the default.
FastEigenArgs(meth) == IF meth = "eigen" THEN BOOLEAN ELSE {FALSE}

(* CT_HMM_LEARNER.run_EM, up to the first test of the loop condition *)
run_EM ==
    /\ pc = "idle"
    /\ \E fe \in FastEigenArgs(method), tl \in TolVals, um \in BOOLEAN, us \in BOOLEAN :
          /\ fast_eigen' = fe
          /\ tol' = tl
          /\ update_mu' = um
          /\ update_sigma' = us
    /\ old_log_likelihood' = NInf
    /\ new_log_likelihood' = Zero
    /\ old_from' = "init"
    /\ pc' = "loop_test"
    /\ UNCHANGED <<err, ctor_vars, ls_mu, ls_sigma, Q, has_time_intervals, time_intervals,
                   expm_Q_t, eig, C, Beta, stale_read>>

\* np.abs(old_log_likelihood - new_log_likelihood) > tol
LoopCondition(old, new, tl) == Gt(Abs(Sub(old, new)), tl)

(* run_EM: the while test *)
loop_test ==
    /\ pc = "loop_test"
    /\ pc' = IF LoopCondition(old_log_likelihood, new_log_likelihood, tol)
             THEN "EM_step" ELSE "done"
    /\ UNCHANGED <<err, ctor_vars, ls_mu, ls_sigma, Q, has_time_intervals, time_intervals,
                   expm_Q_t, eig, run_args, old_log_likelihood, new_log_likelihood,
                   C, Beta, old_from, stale_read>>

(* ------------------------------ E-step -------------------------------- *)

\* An exception leaves run_EM: the run ends with it.
Raise(kind) == pc' = "error" /\ err' = kind

\* matrix_exponentials: one kernel expm(Q*t) per gap of self.time_intervals.
matrix_exponentials(Qm, gaps) == [t \in gaps |-> Qm]

\* set_eigendecomposition: U, V, D of the current Q.
set_eigendecomposition(Qm) == <<Qm>>

\* Values of one gap's sojourn contraction (np.sum(Ai * B)).
TauVals == {Num(1)}

\* Values of one gap's transition contraction (np.sum(Aij * B)).
KVals == {Num(0), Num(1)}

\* Values of np.sum(np.log(patient.C)) for one patient.
LLVals == {Num(-2), Num(0), NaN}

\* The contractions of one gap: per state and per ordered pair of distinct states
\* (the pairs of one gap share their value here).
Ctrs(n) ==
    {[soj |-> [i \in States(n) |-> s],
      trans |-> [i \in States(n) |-> [j \in States(n) |-> IF i = j THEN Zero ELSE k]]] :
        s \in TauVals, k \in KVals}

\* The contractions of a gap whose pairwise beliefs (get_zeta) hold NaN.
NaNCtr(n) ==
    [soj |-> [i \in States(n) |-> NaN],
     trans |-> [i \in States(n) |-> [j \in States(n) |-> IF i = j THEN Zero ELSE NaN]]]

\* What the backward recursion of a patient does: its beta vectors are finite, or
\* one holds NaN and the debugger session it stops in is continued or quit.
BetaOutcomes(times) ==
    IF Len(times) > 1 THEN {"finite", "nan_continue", "nan_quit"} ELSE {"finite"}

\* What the numerical routines return for one patient: the outcome of its
\* backward recursion, the contractions of each of its gaps (NaN when Beta holds
\* NaN) and the log of its scaling constants.
PatientDraws(times, n) ==
    {[cs |-> c, ll |-> l, beta |-> "finite"] :
        c \in [1 .. (Len(times) - 1) -> Ctrs(n)], l \in LLVals}
    \cup {[cs |-> [g \in 1 .. (Len(times) - 1) |-> NaNCtr(n)], ll |-> l, beta |-> b] :
            l \in LLVals, b \in BetaOutcomes(times) \ {"finite"}}

RECURSIVE DrawsUpTo(_, _, _)
\* One draw per patient for the first k patients of the list pts.
DrawsUpTo(pts, k, n) ==
    IF k = 0 THEN {<<>>}
    ELSE {Append(d, x) : d \in DrawsUpTo(pts, k - 1, n), x \in PatientDraws(pts[k], n)}

\* One draw per patient of the list pts.
DrawsFor(pts, n) == DrawsUpTo(pts, Len(pts), n)

\* Eigen_Nij_time_interval: Q[i,j] times the contraction off the diagonal, 0 on it.
Eigen_Nij_time_interval(Qm, c, n) ==
    [i \in States(n) |-> [j \in States(n) |->
        IF i # j THEN Mul(Qm[i][j], c.trans[i][j]) ELSE Zero]]

\* Eigen_TauI_time_interval: the sojourn contraction of every state.
Eigen_TauI_time_interval(c, n) == [i \in States(n) |-> c.soj[i]]

RECURSIVE Eigen_Nij_gaps(_, _, _, _)
Eigen_Nij_gaps(Qm, cs, g, n) ==
    IF g = 0 THEN ZeroMat(n)
    ELSE MatAdd(Eigen_Nij_gaps(Qm, cs, g - 1, n), Eigen_Nij_time_interval(Qm, cs[g], n), n)

\* Eigen_Nij_all_times: the sum over the patient's gaps.
Eigen_Nij_all_times(Qm, cs, n) == Eigen_Nij_gaps(Qm, cs, Len(cs), n)

RECURSIVE Eigen_TauI_gaps(_, _, _)
Eigen_TauI_gaps(cs, g, n) ==
    IF g = 0 THEN ZeroVec(n)
    ELSE VecAdd(Eigen_TauI_gaps(cs, g - 1, n), Eigen_TauI_time_interval(cs[g], n), n)

\* Eigen_TauI_all_times (EM_step calls it in its on-demand mode).
Eigen_TauI_all_times(cs, n) == Eigen_TauI_gaps(cs, Len(cs), n)

\* Expm_TauI_Nij_all_times, one gap: Nij[i,i] gets the sojourn contraction times
\* -Q[i,i], Nij[i,j] gets Q[i,j] times the transition contraction where the mask
\* allows (i,j).
Expm_Nij_time_interval(Qm, mask, c, n) ==
    [i \in States(n) |-> [j \in States(n) |->
        IF mask[i][j] = 1 THEN Mul(c.trans[i][j], Qm[i][j])
        ELSE IF i = j THEN Mul(c.soj[i], Neg(Qm[i][i]))
        ELSE Zero]]

RECURSIVE Expm_Nij_gaps(_, _, _, _, _)
Expm_Nij_gaps(Qm, mask, cs, g, n) ==
    IF g = 0 THEN ZeroMat(n)
    ELSE MatAdd(Expm_Nij_gaps(Qm, mask, cs, g - 1, n),
                Expm_Nij_time_interval(Qm, mask, cs[g], n), n)

RECURSIVE Expm_TauI_gaps(_, _, _)
Expm_TauI_gaps(cs, g, n) ==
    IF g = 0 THEN ZeroVec(n)
    ELSE VecAdd(Expm_TauI_gaps(cs, g - 1, n), [i \in States(n) |-> cs[g].soj[i]], n)

\* Expm_TauI_Nij_all_times: the pair (TauI, Nij_mat) it returns.
Expm_TauI_Nij_all_times(Qm, mask, cs, n) ==
    <<Expm_TauI_gaps(cs, Len(cs), n), Expm_Nij_gaps(Qm, mask, cs, Len(cs), n)>>

\* The (TauI, Nij) EM_step adds for one patient under the method meth.
PatientStats(meth, Qm, mask, cs, n) ==
    IF meth = "eigen"
    THEN <<Eigen_TauI_all_times(cs, n), Eigen_Nij_all_times(Qm, cs, n)>>
    ELSE Expm_TauI_Nij_all_times(Qm, mask, cs, n)

\* emission_Gaussian iterates the per-marker lists: a flat list of floats raises TypeError.
emission_Gaussian_raises(mu, sigma) == mu.shape # "per_marker" \/ sigma.shape # "per_marker"

\* get_alpha_vector / get_beta_vector: a gap that is not a key of expm_Q_t
\* takes the branch expm(Q*t), whose Q is an unbound name.
KernelMiss(times, cache) == \E g \in GapsOf(times) : g \notin DOMAIN cache

\* A kernel or eigendecomposition read while it stems from another Q than the current one.
StaleUse(times, cache, eg, Qm) ==
    \/ \E g \in GapsOf(times) \cap DOMAIN cache : cache[g] # Qm
    \/ (GapsOf(times) # {} /\ eg # <<Qm>>)

\* EM_step before its patient loop: Nij = 0, TauI = 0 (the int), nothing raised.
LoopStart(c, bt, stale) ==
    [err |-> "", acc_set |-> FALSE, Nij |-> <<>>, TauI |-> <<>>, pi0_denominator |-> 0,
     C |-> c, Beta |-> bt, stale |-> stale]

RECURSIVE PatientLoop_keeping_last(_, _, _, _)
\* The patient loop with "=" in place of "+=": each patient's statistics replace
\* what the loop has accumulated.
PatientLoop_keeping_last(k, d, L, start) ==
    IF k = 0 THEN start
    ELSE LET prev == PatientLoop_keeping_last(k - 1, d, L, start)
             stats == PatientStats(L.method, L.Q, L.Q_struct, d[k].cs, L.n)
         IN  IF prev.err # "" THEN prev
             ELSE IF emission_Gaussian_raises(L.ls_mu, L.ls_sigma)
             THEN [prev EXCEPT !.err = "TypeError"]
             ELSE IF KernelMiss(L.pts[k], L.expm_Q_t)
             THEN [prev EXCEPT !.err = "NameError: Q"]
             ELSE IF d[k].beta = "nan_quit"
             THEN [prev EXCEPT !.err = "BdbQuit"]
             ELSE [err |-> "",
                   Beta |-> (k :> (IF d[k].beta = "finite" THEN "finite" ELSE "nan"))
                               @@ prev.Beta,
                   acc_set |-> TRUE,
                   Nij |-> stats[2],
                   TauI |-> stats[1],
                   pi0_denominator |-> 1,
                   C |-> (k :> d[k].ll) @@ prev.C,
                   stale |-> (prev.stale \/ StaleUse(L.pts[k], L.expm_Q_t, L.eig, L.Q))]

RECURSIVE PatientLoop(_, _, _, _)
\* The state of EM_step's patient loop after the first k patients of L.pts, d[p]
\* being what the numerical routines return for patient p.  L holds what the loop
\* reads of the learner: method, Q, Q_struct, num_state, the caches, ls_mu, ls_sigma.
PatientLoop(k, d, L, start) ==
    IF k = 0 THEN start
    ELSE LET prev == PatientLoop(k - 1, d, L, start)
             stats == PatientStats(L.method, L.Q, L.Q_struct, d[k].cs, L.n)
         IN  IF prev.err # "" THEN prev
             ELSE IF emission_Gaussian_raises(L.ls_mu, L.ls_sigma)
             THEN [prev EXCEPT !.err = "TypeError"]
             ELSE IF KernelMiss(L.pts[k], L.expm_Q_t)
             THEN [prev EXCEPT !.err = "NameError: Q"]
             ELSE IF d[k].beta = "nan_quit"
             THEN \* BdbQuit leaves get_beta_vector: self.Beta is not assigned
                  [prev EXCEPT !.err = "BdbQuit"]
             ELSE [err |-> "",
                   Beta |-> (k :> (IF d[k].beta = "finite" THEN "finite" ELSE "nan"))
                               @@ prev.Beta,
                   acc_set |-> TRUE,
                   Nij |-> IF prev.acc_set THEN MatAdd(prev.Nij, stats[2], L.n) ELSE stats[2],
                   TauI |-> IF prev.acc_set THEN VecAdd(prev.TauI, stats[1], L.n) ELSE stats[1],
                   pi0_denominator |-> prev.pi0_denominator + 1,
                   C |-> (k :> d[k].ll) @@ prev.C,
                   stale |-> (prev.stale \/ StaleUse(L.pts[k], L.expm_Q_t, L.eig, L.Q))]

\* The accumulators the bounds admit.
StatsInRange(e, n) ==
    e.acc_set =>
       \A i \in States(n) : InRange(e.TauI[i]) /\ \A j \in States(n) : InRange(e.Nij[i][j])

(* ------------------------------- M-step ------------------------------- *)

\* The floor 1e-10 of update_model_params (the unit of the rate values).
FloorQ == Num(1)

\* Nij[i,j]/TauI[i]
Quotient(N, T, i, j) == Div(N[i][j], T[i])

\* if self.bound: if self.Q[i,j] < 1e-10: self.Q[i,j] = 1e-10
Floored(q, bnd) == IF bnd /\ Lt(q, FloorQ) THEN FloorQ ELSE q

\* The mask-allowed entries whose quotient is NaN: each stops in pdb.set_trace().
NaNEntries(mask, N, T, n) ==
    {e \in States(n) \X States(n) : mask[e[1]][e[2]] = 1 /\ IsNaN(Quotient(N, T, e[1], e[2]))}

\* The double loop over (i,j) in row-major order, run through entry number last.
update_offdiag_through(Qm, mask, N, T, bnd, n, last) ==
    [i \in States(n) |-> [j \in States(n) |->
        IF mask[i][j] = 1 /\ i * n + j <= last
        THEN Floored(Quotient(N, T, i, j), bnd)
        ELSE Qm[i][j]]]

\* The whole double loop of update_model_params.
update_offdiag(Qm, mask, N, T, bnd, n) ==
    update_offdiag_through(Qm, mask, N, T, bnd, n, n * n)

\* self.Q[i,i] = 0
ZeroDiagonal(M, n) ==
    [i \in States(n) |-> [j \in States(n) |-> IF i = j THEN Zero ELSE M[i][j]]]

\* self.Q[i,i] = -np.sum(self.Q[i,:])
NegRowSums(M, n) ==
    [i \in States(n) |-> [j \in States(n) |->
        IF i = j THEN Neg(Sum(M[i], n)) ELSE M[i][j]]]

\* The second loop without its first statement: the old diagonal stays in the sum.
update_diagonal_keeping_old(M, n) == NegRowSums(M, n)

\* The second loop of update_model_params, for Q.
update_diagonal(M, n) == NegRowSums(ZeroDiagonal(M, n), n)

(* update_model_params(Nij, TauI, ...), as EM_step calls it with e.Nij and e.TauI *)
update_model_params(e) ==
    LET n == num_state IN
    IF ~e.acc_set /\ \E i \in States(n), j \in States(n) : Q_struct[i][j] = 1
    THEN \* no patient: Nij and TauI are still the int 0, and Nij[i,j] raises
         /\ Raise("TypeError")
         /\ UNCHANGED <<Q, ls_mu, ls_sigma>>
    ELSE \/ \* every breakpoint (if any) is continued: the M-step completes
            /\ Q' = update_diagonal(update_offdiag(Q, Q_struct, e.Nij, e.TauI, bound, n), n)
            /\ ls_mu' = IF update_mu THEN FlatList(n) ELSE ls_mu
            /\ ls_sigma' = IF update_sigma THEN FlatList(n) ELSE ls_sigma
            /\ pc' = "calc_ll"
            /\ UNCHANGED err
         \/ \* the debugger session of a NaN entry is quit: BdbQuit leaves the loop
            \E x \in NaNEntries(Q_struct, e.Nij, e.TauI, n) :
               /\ Q' = update_offdiag_through(Q, Q_struct, e.Nij, e.TauI, bound, n,
                                              x[1] * n + x[2])
               /\ Raise("BdbQuit")
               /\ UNCHANGED <<ls_mu, ls_sigma>>

(* EM_step: the caches, the end-state tables, the patient loop, the M-step *)
EM_step ==
    /\ pc = "EM_step"
    /\ IF ~has_time_intervals
       THEN \* matrix_exponentials reads self.time_intervals, which nothing has set
            /\ Raise("AttributeError")
            /\ UNCHANGED <<expm_Q_t, eig, Q, ls_mu, ls_sigma, C, Beta, stale_read>>
       ELSE IF ~AllFinite(Q, num_state)
       THEN \* np.linalg.eig refuses a matrix holding NaN or Inf; expm may refuse first
            /\ \/ /\ time_intervals # {}
                  /\ Raise("ValueError")
                  /\ UNCHANGED expm_Q_t
               \/ /\ Raise("LinAlgError")
                  /\ expm_Q_t' = matrix_exponentials(Q, time_intervals)
            /\ UNCHANGED <<eig, Q, ls_mu, ls_sigma, C, Beta, stale_read>>
       ELSE /\ expm_Q_t' = matrix_exponentials(Q, time_intervals)
            /\ eig' = set_eigendecomposition(Q)
            /\ IF fast_eigen = FALSE /\ method = "eigen" /\ time_intervals # {}
               THEN \* Eigen_TauI_time_interval_end_state reads the name j, which it never binds
                    /\ Raise("NameError: j")
                    /\ UNCHANGED <<Q, ls_mu, ls_sigma, C, Beta, stale_read>>
               ELSE \E d \in DrawsFor(patients, num_state) :
                       LET L == [method |-> method, Q |-> Q, Q_struct |-> Q_struct,
                                 n |-> num_state, pts |-> patients,
                                 expm_Q_t |-> matrix_exponentials(Q, time_intervals),
                                 eig |-> set_eigendecomposition(Q),
                                 ls_mu |-> ls_mu, ls_sigma |-> ls_sigma]
                           e == PatientLoop(Len(patients), d, L,
                                            LoopStart(C, Beta, stale_read))
                       IN  /\ StatsInRange(e, num_state)
                           /\ C' = e.C
                           /\ Beta' = e.Beta
                           /\ stale_read' = e.stale
                           /\ IF e.err # ""
                              THEN Raise(e.err) /\ UNCHANGED <<Q, ls_mu, ls_sigma>>
                              ELSE update_model_params(e)
    /\ UNCHANGED <<ctor_vars, has_time_intervals, time_intervals, run_args,
                   old_log_likelihood, new_log_likelihood, old_from>>

\* calculate_log_likelihood: the sum over the patients of np.sum(np.log(patient.C)).
RECURSIVE calculate_log_likelihood(_, _)
calculate_log_likelihood(c, k) ==
    IF k = 0 THEN Zero ELSE Add(calculate_log_likelihood(c, k - 1), c[k])

(* run_EM: the rest of the loop body after EM_step *)
next_log_likelihood ==
    /\ pc = "calc_ll"
    /\ old_log_likelihood' = new_log_likelihood
    /\ new_log_likelihood' = calculate_log_likelihood(C, Len(patients))
    /\ old_from' = IF old_from = "init" THEN "placeholder" ELSE "computed"
    /\ pc' = "loop_test"
    /\ UNCHANGED <<err, ctor_vars, ls_mu, ls_sigma, Q, has_time_intervals, time_intervals,
                   expm_Q_t, eig, run_args, C, Beta, stale_read>>

(* Patient.predict, called on a trained learner for a time after the last observation *)
predict ==
    /\ pc = "done"
    /\ \E p \in 1 .. Len(patients), t \in PredictTimes :
          LET times == patients[p]
              gap == t - times[Len(times)]
          IN
          /\ gap > 0
          /\ IF gap \in DOMAIN expm_Q_t
             THEN /\ stale_read' = (stale_read \/ expm_Q_t[gap] # Q)
                  /\ UNCHANGED <<pc, err>>
             ELSE \* get_alpha_vector's miss branch: expm(Q*t) with Q unbound
                  /\ Raise("NameError: Q")
                  /\ UNCHANGED stale_read
    /\ UNCHANGED <<ctor_vars, ls_mu, ls_sigma, Q, has_time_intervals, time_intervals,
                   expm_Q_t, eig, run_args, old_log_likelihood, new_log_likelihood, C, Beta,
                   old_from>>

Next ==
    \/ get_time_intervals
    \/ run_EM
    \/ loop_test
    \/ EM_step
    \/ next_log_likelihood
    \/ predict

Spec == Init /\ [][Next]_vars

\* What can be done with a learner that has no patient.
StructNext ==
    \/ get_time_intervals
    \/ run_EM
    \/ loop_test
    \/ EM_step
    \/ next_log_likelihood

StructSpec == StructInit /\ [][StructNext]_vars

\* run_EM is sequential code: once called, each of its steps is eventually taken.
\* The caller's actions (get_time_intervals, run_EM, predict) carry no fairness.
\* EM_step is enabled whenever pc = "EM_step" and always leaves that position, so
\* its weak fairness is stated as: the run is infinitely often not at "EM_step".
FairSpec ==
    Init /\ [][Next]_vars
         /\ WF_vars(loop_test) /\ WF_vars(next_log_likelihood)
         /\ []<>(pc # "EM_step")

(* ------------------------------ properties ---------------------------- *)

\* The learner exists (the constructor did not raise).
Constructed == pc # "ctor_error"

\* An M-step has just completed normally.
AfterMStep == pc = "calc_ll"

\* The sum of the off-diagonal entries of row i of M.
OffDiagSum(M, i, n) == Sum([k \in States(n) |-> IF k = i THEN Zero ELSE M[i][k]], n)

\* a >= b for floats (false when either is NaN).
Ge(a, b) == Gt(a, b) \/ (~IsNaN(a) /\ a = b)

\* C1: wherever the mask is 0 off the diagonal, Q is exactly 0, in every state of a
\* constructed learner (after construction with an explicit or a random Q, and
\* after every M-step).
C1_OffMaskZero ==
    Constructed =>
        \A i \in States(num_state), j \in States(num_state) :
            (i # j /\ Q_struct[i][j] = 0) => Q[i][j] = Zero

\* C2: after every M-step whose off-diagonal entries are finite, each diagonal
\* entry is minus the sum of the off-diagonal entries of its row and each row
\* sums to 0, with flooring on or off.
C2_RowsSumToZero ==
    (AfterMStep /\ \A i \in States(num_state), j \in States(num_state) :
                      i # j => IsFinite(Q[i][j]))
    => \A i \in States(num_state) :
          /\ Q[i][i] = Neg(OffDiagSum(Q, i, num_state))
          /\ Sum(Q[i], num_state) = Zero

\* C2 happens: an M-step has completed with finite entries and a nonzero row,
\* with flooring on and with flooring off.
C2_Witness ==
    /\ AfterMStep
    /\ AllFinite(Q, num_state)
    /\ \E i \in States(num_state) : Q[i][i] # Zero /\ Sum(Q[i], num_state) = Zero

\* C3 (the consequence it draws): with flooring on, every mask-allowed entry of Q
\* is at least the floor after every M-step.
C3_FlooredAtLeastFloor ==
    (AfterMStep /\ bound) =>
        \A i \in States(num_state), j \in States(num_state) :
            Q_struct[i][j] = 1 => Ge(Q[i][j], FloorQ)

\* C4: an M-step never completes normally leaving a NaN or infinite entry in Q.
C4_NoNaNAfterMStep == AfterMStep => AllFinite(Q, num_state)

\* C5: when run_EM stops on finite log-likelihoods, the value the last one was
\* compared with is a log-likelihood computed by an iteration.
C5_StopsOnComputedOnly ==
    (pc = "done" /\ IsFinite(old_log_likelihood) /\ IsFinite(new_log_likelihood))
    => old_from = "computed"

\* C6: every call of run_EM terminates: from the loop test, the run eventually
\* returns or raises.
C6_Terminates == (pc = "loop_test") ~> (pc \in {"done", "error"})

\* EM_step is about to compute the statistics of its patients from Q.
AtEStep == pc = "EM_step" /\ has_time_intervals /\ AllFinite(Q, num_state)

\* C7: on the same model and the same sequence, the eigen method and the expm
\* method return the same TauI and the same Nij, entry for entry.
C7_MethodsAgree ==
    AtEStep =>
        \A p \in 1 .. Len(patients) : \A d \in PatientDraws(patients[p], num_state) :
            PatientStats("eigen", Q, Q_struct, d.cs, num_state)
              = PatientStats("expm", Q, Q_struct, d.cs, num_state)

\* C8: under either method the Nij returned for a sequence is 0 on the diagonal
\* and 0 wherever the mask is 0.
C8_NijZeroOffMask ==
    AtEStep =>
        \A meth \in {"eigen", "expm"}, p \in 1 .. Len(patients) :
            \A d \in PatientDraws(patients[p], num_state) :
                LET N == PatientStats(meth, Q, Q_struct, d.cs, num_state)[2] IN
                \A i \in States(num_state), j \in States(num_state) :
                    (i = j \/ Q_struct[i][j] = 0) => N[i][j] = Zero

\* C9: no kernel or eigendecomposition computed from another Q than the current
\* one is ever read.
C9_NoStaleRead == ~stale_read

\* C10: with the eigen method an EM step never dies in the precomputed
\* end-state mode (fast_eigen = False).
C10_PrecomputedCompletes ==
    (pc = "error" /\ method = "eigen" /\ fast_eigen = FALSE) => err # "NameError: j"

\* C11: a backward recursion whose beta vector holds NaN is never stored as
\* patient.Beta (the recursion ends with an error at that step instead).
C11_NoNaNBetaStored == \A p \in DOMAIN Beta : Beta[p] # "nan"

RECURSIVE Radix(_, _)
\* The weight of marker m in the mixed-radix index: the product of the level
\* counts of the markers after m.
Radix(lens, m) == IF m >= Len(lens) THEN 1 ELSE lens[m + 1] * Radix(lens, m + 1)

\* The level of marker m in the composite state i.
Level(i, m, lens) == (i \div Radix(lens, m)) % lens[m]

RECURSIVE LevelProduct(_, _)
\* The product of the first m level counts.
LevelProduct(lens, m) == IF m = 0 THEN 1 ELSE lens[m] * LevelProduct(lens, m - 1)

\* C12: the mask of a constructed learner is a 0/1 matrix over the n composite
\* states (n the product of the level counts, state i being the i-th level tuple
\* in mixed-radix order) with a zero diagonal; off the diagonal it is 1 always
\* under "fc", 1 exactly when every marker's level stays or rises by one under
\* "forward_step", and 1 exactly when no marker's level falls under "forward_any".
C12_MaskAsSpecified ==
    (Constructed /\ ls_mu.shape = "per_marker") =>
        LET lens == ls_mu.lens
            n == LevelProduct(lens, Len(lens))
            Markers == 1 .. Len(lens)
        IN  /\ num_state = n
            /\ DOMAIN Q_struct = States(n)
            /\ \A i \in States(n) :
                  /\ DOMAIN Q_struct[i] = States(n)
                  /\ Q_struct[i][i] = 0
                  /\ \A j \in States(n) \ {i} :
                        /\ Q_struct[i][j] \in {0, 1}
                        /\ structure = "fc" => Q_struct[i][j] = 1
                        /\ structure = "forward_step" =>
                              (Q_struct[i][j] = 1 <=>
                                 \A m \in Markers :
                                    Level(j, m, lens) - Level(i, m, lens) \in {0, 1})
                        /\ structure = "forward_any" =>
                              (Q_struct[i][j] = 1 <=>
                                 \A m \in Markers :
                                    Level(j, m, lens) >= Level(i, m, lens))

\* C12 happens: a "forward_step" learner over two markers whose mask forbids a
\* transition in which no level falls but one rises by two.
C12_Witness ==
    /\ Constructed
    /\ structure = "forward_step"
    /\ Len(ls_mu.lens) = 2
    /\ \E i \in States(num_state), j \in States(num_state) :
          /\ Q_struct[i][j] = 0
          /\ \A m \in 1 .. 2 : Level(j, m, ls_mu.lens) >= Level(i, m, ls_mu.lens)
          /\ \E m \in 1 .. 2 : Level(j, m, ls_mu.lens) - Level(i, m, ls_mu.lens) = 2

\* C13: a topology name other than the three recognised ones makes the
\* constructor fail with the error of create_Q_struct before Q, the patients or
\* the method are set, and no learner results; a recognised name never does.
C13_UnknownStructureRaises ==
    /\ structure \notin {"fc", "forward_step", "forward_any"} =>
          /\ pc = "ctor_error" /\ err = "Exception"
          /\ Q_struct = <<>> /\ Q = <<>> /\ patients = <<>> /\ method = ""
    /\ structure \in {"fc", "forward_step", "forward_any"} =>
          /\ pc # "ctor_error"
          /\ err # "Exception"
          /\ pc = "idle" => (Q # <<>> /\ method # "")

\* C13 happens: the constructor was called with an unknown name and raised.
C13_Witness == structure = "ring" /\ pc = "ctor_error" /\ err = "Exception"

\* C15: ls_mu and ls_sigma keep the per-marker list shape the emission
\* likelihood reads, whatever re-estimation the caller selects.
C15_ShapeKept ==
    Constructed => (ls_mu.shape = "per_marker" /\ ls_sigma.shape = "per_marker")

\* What EM_step's patient loop reads of the learner at the start of an iteration.
LoopInputs ==
    [method |-> method, Q |-> Q, Q_struct |-> Q_struct, n |-> num_state,
     pts |-> patients, expm_Q_t |-> matrix_exponentials(Q, time_intervals),
     eig |-> set_eigendecomposition(Q), ls_mu |-> ls_mu, ls_sigma |-> ls_sigma]

\* The sequence s in reverse order.
Reverse(s) == [k \in 1 .. Len(s) |-> s[Len(s) + 1 - k]]

\* EM_step is about to run its patient loop: the caches can be built, the
\* end-state tables (if any) can be filled and the emissions can be computed.
AtPatientLoop ==
    /\ AtEStep
    /\ ~(fast_eigen = FALSE /\ method = "eigen" /\ time_intervals # {})
    /\ ~emission_Gaussian_raises(ls_mu, ls_sigma)

RECURSIVE SumOfContributions(_, _)
\* The sum over the first k patients of the <<TauI, Nij>> each contributes under
\* the current Q, d[p] being what the numerical routines return for patient p.
SumOfContributions(k, d) ==
    IF k = 0 THEN <<ZeroVec(num_state), ZeroMat(num_state)>>
    ELSE LET rest == SumOfContributions(k - 1, d)
             own == PatientStats(method, Q, Q_struct, d[k].cs, num_state)
         IN  <<VecAdd(rest[1], own[1], num_state), MatAdd(rest[2], own[2], num_state)>>

C17_NoReturnOnNaN == pc = "done" => IsFinite(new_log_likelihood)

\* C18: training a learner built with patients never fails for want of
\* self.time_intervals, whether or not the caller invoked get_time_intervals.
C18_CacheBuiltByTraining ==
    (patients # <<>> /\ pc = "error") => err # "AttributeError"

====
